---- MODULE Spec2Model ----
(***************************************************************************)
(* Mortgage calculator (src/src/App.tsx): the App component's four inputs, *)
(* their onChange handlers, the memoised principal-and-interest figure and *)
(* calculateMonthlyPrincipalAndInterest.                                   *)
(*                                                                         *)
(* Every value of TypeScript's `number` is an IEEE 754 binary64.  A number *)
(* is modelled as one of                                                   *)
(*     [k |-> "nan"]                                                       *)
(*     [k |-> "inf",  s |-> 0 or 1]                                        *)
(*     [k |-> "zero", s |-> 0 or 1]                                        *)
(*     [k |-> "fin",  s |-> 0 or 1, m |-> M, e |-> E]    value M * 2^E     *)
(* where M is a natural number of at most Precision bits, written as a     *)
(* little-endian sequence of limbs (digits in base 2^15, no leading zero   *)
(* limb), because a 53-bit significand does not fit a TLC integer.  The    *)
(* representation is canonical: 2^52 <= M < 2^53 and E >= MinExp, or       *)
(* M < 2^52 and E = MinExp (a subnormal).                                  *)
(***************************************************************************)
EXTENDS Integers, Sequences, FiniteSets, TLC

(***************************************************************************)
(* Natural numbers of arbitrary size: sequences of limbs, least            *)
(* significant first.                                                      *)
(***************************************************************************)
Base == 2^15

RECURSIVE BNorm(_)
BNorm(a) ==
  IF a = <<>> THEN <<>>
  ELSE IF a[Len(a)] = 0 THEN BNorm(SubSeq(a, 1, Len(a) - 1))
  ELSE a

BOfInt(x) ==
  IF x = 0 THEN <<>>
  ELSE IF x < Base THEN <<x>>
  ELSE IF x < Base * Base THEN <<x % Base, x \div Base>>
  ELSE <<x % Base, (x \div Base) % Base, x \div (Base * Base)>>

BLimb(a, i) == IF i >= 1 /\ i <= Len(a) THEN a[i] ELSE 0

RECURSIVE BCmpFrom(_, _, _)
BCmpFrom(a, b, i) ==
  IF i = 0 THEN 0
  ELSE IF a[i] < b[i] THEN -1
  ELSE IF a[i] > b[i] THEN 1
  ELSE BCmpFrom(a, b, i - 1)

\* -1, 0 or 1 as a < b, a = b, a > b (both without leading zero limbs)
BCmp(a, b) ==
  IF Len(a) < Len(b) THEN -1
  ELSE IF Len(a) > Len(b) THEN 1
  ELSE BCmpFrom(a, b, Len(a))

RECURSIVE BAddFrom(_, _, _, _)
BAddFrom(a, b, i, c) ==
  IF i > Len(a) /\ i > Len(b)
  THEN (IF c = 0 THEN <<>> ELSE <<c>>)
  ELSE LET t == BLimb(a, i) + BLimb(b, i) + c
       IN  <<t % Base>> \o BAddFrom(a, b, i + 1, t \div Base)

BAdd(a, b) == BAddFrom(a, b, 1, 0)

RECURSIVE BSubFrom(_, _, _, _)
BSubFrom(a, b, i, c) ==
  IF i > Len(a) THEN <<>>
  ELSE LET t == a[i] - BLimb(b, i) - c
       IN  IF t < 0 THEN <<t + Base>> \o BSubFrom(a, b, i + 1, 1)
           ELSE <<t>> \o BSubFrom(a, b, i + 1, 0)

\* a - b, for a >= b
BSub(a, b) == BNorm(BSubFrom(a, b, 1, 0))

RECURSIVE BMulSmallFrom(_, _, _, _)
BMulSmallFrom(a, k, i, c) ==
  IF i > Len(a)
  THEN (IF c = 0 THEN <<>> ELSE <<c>>)
  ELSE LET t == a[i] * k + c
       IN  <<t % Base>> \o BMulSmallFrom(a, k, i + 1, t \div Base)

\* a * k, for 0 <= k < Base
BMulSmall(a, k) == IF k = 0 THEN <<>> ELSE BMulSmallFrom(a, k, 1, 0)

BZeros(n) == [i \in 1..n |-> 0]

\* Column k of the schoolbook product: the low halves of the limb products
\* a[i] * b[k+1-i] and the high halves of those of column k - 1, summed over
\* i from lo to hi.
RECURSIVE BColLow(_, _, _, _, _)
BColLow(a, b, k, i, hi) ==
  IF i > hi THEN 0
  ELSE ((a[i] * b[k + 1 - i]) % Base) + BColLow(a, b, k, i + 1, hi)

RECURSIVE BColHigh(_, _, _, _, _)
BColHigh(a, b, k, i, hi) ==
  IF i > hi THEN 0
  ELSE ((a[i] * b[k + 1 - i]) \div Base) + BColHigh(a, b, k, i + 1, hi)

BFirst(b, k) == IF k > Len(b) THEN k + 1 - Len(b) ELSE 1
BLast(a, k) == IF k < Len(a) THEN k ELSE Len(a)

BColumn(a, b, k) ==
  BColLow(a, b, k, BFirst(b, k), BLast(a, k))
    + BColHigh(a, b, k - 1, BFirst(b, k - 1), BLast(a, k - 1))

RECURSIVE BCarryFrom(_, _, _, _, _)
BCarryFrom(a, b, k, n, c) ==
  IF k > n THEN <<>>
  ELSE LET t == BColumn(a, b, k) + c
       IN  <<t % Base>> \o BCarryFrom(a, b, k + 1, n, t \div Base)

BMul(a, b) ==
  IF a = <<>> \/ b = <<>> THEN <<>>
  ELSE BNorm(BCarryFrom(a, b, 1, Len(a) + Len(b), 0))

RECURSIVE BitLenInt(_)
BitLenInt(x) == IF x = 0 THEN 0 ELSE 1 + BitLenInt(x \div 2)

\* the number of binary digits of a (0 for zero)
BBitLen(a) ==
  IF a = <<>> THEN 0 ELSE (Len(a) - 1) * 15 + BitLenInt(a[Len(a)])

\* a * 2^k
BShl(a, k) ==
  IF a = <<>> THEN <<>>
  ELSE BZeros(k \div 15) \o BMulSmall(a, 2^(k % 15))

RECURSIVE BDivSmallFrom(_, _, _, _)
BDivSmallFrom(a, d, i, r) ==
  IF i = 0 THEN <<>>
  ELSE LET t == r * Base + a[i]
       IN  BDivSmallFrom(a, d, i - 1, t % d) \o <<t \div d>>

\* floor(a / 2^k)
BShr(a, k) ==
  IF k \div 15 >= Len(a) THEN <<>>
  ELSE LET hi == SubSeq(a, (k \div 15) + 1, Len(a))
       IN  BNorm(BDivSmallFrom(hi, 2^(k % 15), Len(hi), 0))

\* a mod 2^k
BLow(a, k) ==
  IF k \div 15 >= Len(a) THEN a
  ELSE BNorm(SubSeq(a, 1, k \div 15) \o <<a[(k \div 15) + 1] % (2^(k % 15))>>)

BBit(a, i) == (BLimb(a, (i \div 15) + 1) \div (2^(i % 15))) % 2

BIsOdd(a) == a # <<>> /\ a[1] % 2 = 1

\* One quotient limb of schoolbook division: r < b * Base, b's top limb is at
\* least Base / 2, so the estimate from the top limbs is at most 2 too large.
RECURSIVE BFitLimb(_, _, _)
BFitLimb(r, b, q) ==
  IF BCmp(BMulSmall(b, q), r) > 0 THEN BFitLimb(r, b, q - 1) ELSE q

BQuotLimb(r, b) ==
  LET n == Len(b)
      est == IF Len(r) > n THEN (r[n + 1] * Base + r[n]) \div b[n]
             ELSE IF Len(r) = n THEN r[n] \div b[n]
             ELSE 0
  IN  BFitLimb(r, b, IF est >= Base THEN Base - 1 ELSE est)

\* Schoolbook division, one limb of the dividend at a time, from limb i down:
\* qr = <<quotient so far, remainder so far>>.
RECURSIVE BDivModFrom(_, _, _, _)
BDivModFrom(a, b, i, qr) ==
  IF i = 0 THEN qr
  ELSE LET r == BNorm(<<a[i]>> \o qr[2])
           q == BQuotLimb(r, b)
       IN  IF q = 0
           THEN BDivModFrom(a, b, i - 1, <<BNorm(<<0>> \o qr[1]), r>>)
           ELSE BDivModFrom(a, b, i - 1,
                            <<BNorm(<<q>> \o qr[1]), BSub(r, BMulSmall(b, q))>>)

\* the quotient and remainder of the operands scaled by 2^s, scaled back
BUnscale(qr, s) == <<qr[1], BShr(qr[2], s)>>

\* <<floor(a / b), a mod b>>, for b # 0
BDivMod(a, b) ==
  LET s == 15 - BitLenInt(b[Len(b)])
  IN  BUnscale(BDivModFrom(BShl(a, s), BShl(b, s), Len(BShl(a, s)),
                           <<(<<>>), (<<>>)>>), s)

(***************************************************************************)
(* IEEE 754 binary64, the `number` of the source.                          *)
(***************************************************************************)
Precision == 53
MinExp == -1074
MaxExp == 971

NaN == [k |-> "nan", s |-> 0, m |-> <<>>, e |-> 0]
Infinity(sign) == [k |-> "inf", s |-> sign, m |-> <<>>, e |-> 0]
Zero(sign) == [k |-> "zero", s |-> sign, m |-> <<>>, e |-> 0]
Finite(sign, mant, exp) == [k |-> "fin", s |-> sign, m |-> mant, e |-> exp]

XorSign(s1, s2) == IF s1 = s2 THEN 0 ELSE 1

\* the exponent of the last place of a result whose exact value is about
\* M * 2^E: Precision bits are kept, fewer below the normal range
RoundExp(M, E) ==
  IF E + BBitLen(M) - Precision > MinExp THEN E + BBitLen(M) - Precision
  ELSE MinExp

\* ties to even: q is the value cut at the last place, half the cut-off bits
\* compared with half a unit of the last place (-1, 0, 1)
RoundNearest(q, half, sticky) ==
  IF half > 0 \/ (half = 0 /\ (sticky \/ BIsOdd(q))) THEN BAdd(q, <<1>>) ELSE q

\* the rounded significand m1 at exponent e1 as a number: a carry out of
\* Precision bits moves the last place up, beyond MaxExp is an infinity
PackRounded(sign, m1, e1) ==
  IF m1 = <<>> THEN Zero(sign)
  ELSE IF BBitLen(m1) > Precision
  THEN (IF e1 + 1 > MaxExp THEN Infinity(sign)
        ELSE Finite(sign, BShr(m1, 1), e1 + 1))
  ELSE IF e1 > MaxExp THEN Infinity(sign)
  ELSE Finite(sign, m1, e1)

RoundAt(sign, M, E, sticky, e1) ==
  IF e1 - E > BBitLen(M) + 1 THEN Zero(sign)
  ELSE IF e1 <= E THEN PackRounded(sign, BShl(M, E - e1), e1)
  ELSE PackRounded(sign,
                   RoundNearest(BShr(M, e1 - E),
                                BCmp(BLow(M, e1 - E), BShl(<<1>>, e1 - E - 1)),
                                sticky),
                   e1)

\* The binary64 nearest to (-1)^sign * V * 2^E, ties to even, where V = M when
\* ~sticky and M < V < M + 1 when sticky (then M has at least Precision + 2
\* bits).  Overflow gives an infinity, underflow a subnormal or a zero.
RoundPack(sign, M, E, sticky) ==
  IF M = <<>> THEN Zero(sign) ELSE RoundAt(sign, M, E, sticky, RoundExp(M, E))

\* a natural number below 2^45 as a number
NumOfNat(x) == RoundPack(0, BOfInt(x), 0, FALSE)

NumNeg(a) == IF a.k = "nan" THEN a ELSE [a EXCEPT !.s = 1 - a.s]

\* -1, 0, 1 as |a| < |b|, |a| = |b|, |a| > |b|, for finite nonzero a and b
CmpMag(a, b) ==
  IF a.e < b.e THEN -1
  ELSE IF a.e > b.e THEN 1
  ELSE BCmp(a.m, b.m)

\* The sum of finite nonzero a and b with a.e >= b.e, before rounding, as
\* <<sign, M, E, sticky>>.  When b lies more than 60 binary places below a it
\* only decides the direction of rounding.
SumFar(a, b) ==
  <<a.s, IF a.s = b.s THEN BShl(a.m, 3) ELSE BSub(BShl(a.m, 3), <<1>>),
    a.e - 3, TRUE>>

\* am is a's significand at b's exponent
SumNear(a, b, am) ==
  IF a.s = b.s THEN <<a.s, BAdd(am, b.m), b.e, FALSE>>
  ELSE IF BCmp(am, b.m) = 0 THEN <<0, (<<>>), 0, FALSE>>
  ELSE IF BCmp(am, b.m) > 0 THEN <<a.s, BSub(am, b.m), b.e, FALSE>>
  ELSE <<b.s, BSub(b.m, am), b.e, FALSE>>

RoundSum(t) == RoundPack(t[1], t[2], t[3], t[4])

AddAligned(a, b) ==
  RoundSum(IF a.e - b.e > 60 THEN SumFar(a, b)
           ELSE SumNear(a, b, BShl(a.m, a.e - b.e)))

\* Number::add
NumAdd(a, b) ==
  IF a.k = "nan" \/ b.k = "nan" THEN NaN
  ELSE IF a.k = "inf" THEN (IF b.k = "inf" /\ b.s # a.s THEN NaN ELSE a)
  ELSE IF b.k = "inf" THEN b
  ELSE IF a.k = "zero" /\ b.k = "zero" THEN Zero(IF a.s = 1 /\ b.s = 1 THEN 1 ELSE 0)
  ELSE IF a.k = "zero" THEN b
  ELSE IF b.k = "zero" THEN a
  ELSE AddAligned(IF a.e >= b.e THEN a ELSE b, IF a.e >= b.e THEN b ELSE a)

\* Number::subtract: x - y is x + (-y)
NumSub(a, b) == NumAdd(a, NumNeg(b))

\* Number::multiply
NumMul(a, b) ==
  IF a.k = "nan" \/ b.k = "nan" THEN NaN
  ELSE IF a.k = "inf" \/ b.k = "inf"
  THEN (IF a.k = "zero" \/ b.k = "zero" THEN NaN ELSE Infinity(XorSign(a.s, b.s)))
  ELSE IF a.k = "zero" \/ b.k = "zero" THEN Zero(XorSign(a.s, b.s))
  ELSE RoundPack(XorSign(a.s, b.s), BMul(a.m, b.m), a.e + b.e, FALSE)

\* a quotient and what is left of it, rounded
RoundQuotient(sign, qr, E) == RoundPack(sign, qr[1], E, qr[2] # <<>>)

\* the binary places to bring a down by so that a / b has at least
\* Precision + 3 quotient bits
QuotientShift(a, b) ==
  IF Precision + 4 + BBitLen(b) - BBitLen(a) > 0
  THEN Precision + 4 + BBitLen(b) - BBitLen(a)
  ELSE 0

\* the quotient of finite nonzero a and b
DivFinite(a, b) ==
  LET k == QuotientShift(a.m, b.m)
  IN  RoundQuotient(XorSign(a.s, b.s), BDivMod(BShl(a.m, k), b.m), a.e - b.e - k)

\* Number::divide
NumDiv(a, b) ==
  IF a.k = "nan" \/ b.k = "nan" THEN NaN
  ELSE IF a.k = "inf"
  THEN (IF b.k = "inf" THEN NaN ELSE Infinity(XorSign(a.s, b.s)))
  ELSE IF b.k = "inf" THEN Zero(XorSign(a.s, b.s))
  ELSE IF b.k = "zero"
  THEN (IF a.k = "zero" THEN NaN ELSE Infinity(XorSign(a.s, b.s)))
  ELSE IF a.k = "zero" THEN Zero(XorSign(a.s, b.s))
  ELSE DivFinite(a, b)

\* Number::lessThan, a < b (false when either is NaN; -0 is not below +0)
NumLt(a, b) ==
  IF a.k = "nan" \/ b.k = "nan" THEN FALSE
  ELSE IF a.k = "zero" /\ b.k = "zero" THEN FALSE
  ELSE IF a.k = "zero" THEN b.s = 0
  ELSE IF b.k = "zero" THEN a.s = 1
  ELSE IF a.s # b.s THEN a.s = 1
  ELSE IF a.k = "inf" THEN (b.k # "inf" /\ a.s = 1)
  ELSE IF b.k = "inf" THEN b.s = 0
  ELSE IF a.s = 0 THEN CmpMag(a, b) < 0
  ELSE CmpMag(a, b) > 0

\* Number::equal, a === b (NaN equals nothing; +0 equals -0)
NumEq(a, b) ==
  IF a.k = "nan" \/ b.k = "nan" THEN FALSE
  ELSE IF a.k = "zero" /\ b.k = "zero" THEN TRUE
  ELSE a = b

\* a <= b
NumLe(a, b) == NumLt(a, b) \/ NumEq(a, b)

\* Math.max of two numbers (NaN if either is NaN; +0 is larger than -0)
MathMax(a, b) ==
  IF a.k = "nan" \/ b.k = "nan" THEN NaN
  ELSE IF a.k = "zero" /\ b.k = "zero" THEN Zero(IF a.s = 0 \/ b.s = 0 THEN 0 ELSE 1)
  ELSE IF NumLt(a, b) THEN b
  ELSE a

\* Number.isNaN
NumberIsNaN(a) == a.k = "nan"

One == NumOfNat(1)

\* the natural number a finite number stands for (a whole number below 2^30)
NatOfNum(a) ==
  IF a.k = "zero" THEN 0
  ELSE LET w == BShr(a.m, 0 - a.e)
       IN  BLimb(w, 1) + Base * BLimb(w, 2)

IsSmallNat(a) ==
  \/ a.k = "zero"
  \/ /\ a.k = "fin"
     /\ a.s = 0
     /\ a.e <= 0
     /\ a.e > 0 - Precision
     /\ BLow(a.m, 0 - a.e) = <<>>
     /\ BBitLen(a.m) + a.e <= 30

\* Powers are carried as <<M, E, inexact>>, the value M * 2^E cut to 105 bits.
PowTrunc(t) ==
  LET sh == BBitLen(t[1]) - 105
  IN  IF sh > 0
      THEN <<BShr(t[1], sh), t[2] + sh, t[3] \/ BLow(t[1], sh) # <<>>>>
      ELSE t

PowMul(x, y) == PowTrunc(<<BMul(x[1], y[1]), x[2] + y[2], x[3] \/ y[3]>>)

RECURSIVE PowNat(_, _)
PowNat(x, n) ==
  IF n = 0 THEN <<(<<1>>), 0, FALSE>>
  ELSE IF n = 1 THEN x
  ELSE LET h == PowNat(x, n \div 2)
           sq == PowMul(h, h)
       IN  IF h[1] = <<>> THEN h
           ELSE IF n % 2 = 1 THEN PowMul(sq, x)
           ELSE sq

RoundPower(sign, t) == RoundPack(sign, t[1], t[2], t[3])

\* x^n for a whole number n >= 0
PowWhole(x, n) ==
  IF x.k = "nan" THEN NaN
  ELSE IF x.k = "inf" THEN Infinity(IF x.s = 1 /\ n % 2 = 1 THEN 1 ELSE 0)
  ELSE IF x.k = "zero" THEN Zero(IF x.s = 1 /\ n % 2 = 1 THEN 1 ELSE 0)
  ELSE RoundPower(IF x.s = 1 /\ n % 2 = 1 THEN 1 ELSE 0,
                  PowNat(<<x.m, x.e, FALSE>>, n))

\* Math.pow(x, y) for y a whole number >= 0 (the only exponents the program
\* forms: n = years * 12).  ECMA-262 leaves the accuracy of Math.pow to the
\* implementation; here the power is formed to 105 bits and then rounded.
MathPow(x, y) ==
  CASE y.k = "nan" -> NaN
    [] y.k = "zero" -> One
    [] y.k = "fin" /\ IsSmallNat(y) -> PowWhole(x, NatOfNum(y))

(***************************************************************************)
(* Number(value) of a string: StringToNumber of ECMA-262.  A string is a   *)
(* sequence of one-character strings.                                      *)
(***************************************************************************)
DecDigits == <<"0", "1", "2", "3", "4", "5", "6", "7", "8", "9">>
HexLower == <<"a", "b", "c", "d", "e", "f">>
HexUpper == <<"A", "B", "C", "D", "E", "F">>

InSeq(c, q) == \E i \in 1..Len(q) : q[i] = c
IndexIn(c, q) == CHOOSE i \in 1..Len(q) : q[i] = c

\* the value of digit c in the radix, or -1
DigitVal(c, radix) ==
  LET v == IF InSeq(c, DecDigits) THEN IndexIn(c, DecDigits) - 1
           ELSE IF InSeq(c, HexLower) THEN IndexIn(c, HexLower) + 9
           ELSE IF InSeq(c, HexUpper) THEN IndexIn(c, HexUpper) + 9
           ELSE -1
  IN  IF v < radix THEN v ELSE -1

IsWhiteSpace(c) == c \in {" ", "\t", "\n", "\r"}

RECURSIVE TrimLeft(_)
TrimLeft(str) ==
  IF str # <<>> /\ IsWhiteSpace(str[1]) THEN TrimLeft(Tail(str)) ELSE str

RECURSIVE TrimRight(_)
TrimRight(str) ==
  IF str # <<>> /\ IsWhiteSpace(str[Len(str)])
  THEN TrimRight(SubSeq(str, 1, Len(str) - 1))
  ELSE str

\* the first index from i on that holds no digit of the radix
RECURSIVE ScanDigits(_, _, _)
ScanDigits(str, i, radix) ==
  IF i <= Len(str) /\ DigitVal(str[i], radix) >= 0
  THEN ScanDigits(str, i + 1, radix)
  ELSE i

\* the digits str[i..j-1] read in the radix, after the digits read into acc
RECURSIVE DigitsValue(_, _, _, _, _)
DigitsValue(str, i, j, radix, acc) ==
  IF i >= j THEN acc
  ELSE IF acc = <<>>
  THEN DigitsValue(str, i + 1, j, radix, BOfInt(DigitVal(str[i], radix)))
  ELSE DigitsValue(str, i + 1, j, radix,
                   BAdd(BMulSmall(acc, radix), BOfInt(DigitVal(str[i], radix))))

\* an exponent's digits as an integer, capped (every exponent beyond the cap
\* overflows or underflows alike)
RECURSIVE ExpValue(_, _, _, _)
ExpValue(str, i, j, acc) ==
  IF i >= j THEN acc
  ELSE ExpValue(str, i + 1, j,
                IF acc >= 100000 THEN acc ELSE acc * 10 + DigitVal(str[i], 10))

RECURSIVE Pow10(_)
Pow10(n) ==
  IF n = 0 THEN <<1>>
  ELSE LET h == Pow10(n \div 2)
           sq == BMul(h, h)
       IN  IF n % 2 = 1 THEN BMulSmall(sq, 10) ELSE sq

\* (-1)^sign * D / den rounded once
DecimalQuotient(sign, D, den) ==
  LET k == QuotientShift(D, den)
  IN  RoundQuotient(sign, BDivMod(BShl(D, k), den), 0 - k)

\* (-1)^sign * D * 10^x rounded once, from the exact product or quotient
DecimalExact(sign, D, x) ==
  IF x >= 0 THEN RoundPack(sign, BMul(D, Pow10(x)), 0, FALSE)
  ELSE DecimalQuotient(sign, D, Pow10(0 - x))

\* d / p for d and p carried to 105 bits
WideQuotient(sign, d, p, qr, k) ==
  RoundPack(sign, qr[1], d[2] - p[2] - k, d[3] \/ p[3] \/ qr[2] # <<>>)

WideBy(sign, d, p, x) ==
  IF x >= 0 THEN RoundPower(sign, PowMul(d, p))
  ELSE WideQuotient(sign, d, p,
                    BDivMod(BShl(d[1], Precision + 4 + BBitLen(p[1])), p[1]),
                    Precision + 4 + BBitLen(p[1]))

\* the same with D and the power of ten carried to 105 bits, for the long
\* digit strings and large exponents whose exact product is thousands of bits
DecimalWide(sign, D, x) ==
  WideBy(sign, PowTrunc(<<D, 0, FALSE>>),
         PowNat(<<(<<10>>), 0, FALSE>>, IF x >= 0 THEN x ELSE 0 - x), x)

\* the number nearest to (-1)^sign * D * 10^x.  10^400 is beyond the largest
\* finite number and 10^-400 below half the smallest.
DecimalToNum(sign, D, x) ==
  IF D = <<>> THEN Zero(sign)
  ELSE IF x > 400 THEN Infinity(sign)
  ELSE IF x < 0 - 400 - BBitLen(D) THEN Zero(sign)
  ELSE IF x >= 0 - 40 /\ x <= 40 /\ BBitLen(D) <= 135 THEN DecimalExact(sign, D, x)
  ELSE DecimalWide(sign, D, x)

\* an ExponentPart whose digits are str[x1..x2-1], as <<well formed, value>>
SignedExponent(str, x1, x2, negative) ==
  <<x2 > x1 /\ x2 = Len(str) + 1,
    IF negative THEN 0 - ExpValue(str, x1, x2, 0) ELSE ExpValue(str, x1, x2, 0)>>

\* what follows the digits, from index f1 to the end of str: an ExponentPart
\* or nothing, as <<well formed, exponent>>
ExponentPart(str, f1) ==
  IF f1 <= Len(str) /\ str[f1] \in {"e", "E"}
  THEN (IF f1 + 1 <= Len(str) /\ str[f1 + 1] \in {"+", "-"}
        THEN SignedExponent(str, f1 + 2, ScanDigits(str, f1 + 2, 10),
                            str[f1 + 1] = "-")
        ELSE SignedExponent(str, f1 + 1, ScanDigits(str, f1 + 1, 10), FALSE))
  ELSE <<f1 = Len(str) + 1, 0>>

\* integer digits str[1..i1-1], fraction digits str[f0..f1-1], exponent ex
DecimalParts(sign, str, i1, f0, f1, ex) ==
  IF (i1 - 1) + (f1 - f0) > 0 /\ ex[1]
  THEN DecimalToNum(sign,
                    DigitsValue(str, f0, f1, 10, DigitsValue(str, 1, i1, 10, <<>>)),
                    ex[2] - (f1 - f0))
  ELSE NaN

\* the fraction digits after the integer digits str[1..i1-1], as the indices
\* <<first, one past the last>>
FractionSpan(str, i1) ==
  IF i1 <= Len(str) /\ str[i1] = "."
  THEN <<i1 + 1, ScanDigits(str, i1 + 1, 10)>>
  ELSE <<i1, i1>>

DecimalFraction(sign, str, i1, f) ==
  DecimalParts(sign, str, i1, f[1], f[2], ExponentPart(str, f[2]))

DecimalDigits(sign, str, i1) ==
  DecimalFraction(sign, str, i1, FractionSpan(str, i1))

\* StrUnsignedDecimalLiteral other than Infinity: digits, an optional
\* fraction, an optional exponent; NaN when str is not one
StrDecimalValue(sign, str) == DecimalDigits(sign, str, ScanDigits(str, 1, 10))

\* NonDecimalIntegerLiteral: 0x, 0o or 0b and digits of that radix
RadixOfPrefix(str) ==
  IF Len(str) >= 2 /\ str[1] = "0"
  THEN (IF str[2] \in {"x", "X"} THEN 16
        ELSE IF str[2] \in {"o", "O"} THEN 8
        ELSE IF str[2] \in {"b", "B"} THEN 2
        ELSE 0)
  ELSE 0

StrNonDecimalValue(str, radix) ==
  IF Len(str) > 2 /\ ScanDigits(str, 3, radix) = Len(str) + 1
  THEN RoundPack(0, DigitsValue(str, 3, Len(str) + 1, radix, <<>>), 0, FALSE)
  ELSE NaN

InfinityWord == <<"I", "n", "f", "i", "n", "i", "t", "y">>

\* StrNumericLiteral: str is the trimmed string
StrNumericValue(str, sign, body) ==
  IF RadixOfPrefix(str) # 0 THEN StrNonDecimalValue(str, RadixOfPrefix(str))
  ELSE IF body = InfinityWord THEN Infinity(sign)
  ELSE StrDecimalValue(sign, body)

StrTrimmedValue(str) ==
  IF str = <<>> THEN Zero(0)
  ELSE StrNumericValue(str, IF str[1] = "-" THEN 1 ELSE 0,
                       IF str[1] \in {"+", "-"} THEN Tail(str) ELSE str)

StringToNumber(raw) == StrTrimmedValue(TrimRight(TrimLeft(raw)))

(***************************************************************************)
(* The program's constants.                                                *)
(***************************************************************************)
LOAN_TERMS ==
  << [label |-> "15 years (fix)", years |-> NumOfNat(15)],
     [label |-> "20 years (fix)", years |-> NumOfNat(20)],
     [label |-> "30 years (fix)", years |-> NumOfNat(30)] >>

DEFAULT_PURCHASE_PRICE == NumOfNat(990000)
DEFAULT_DOWN_PAYMENT == NumOfNat(22002)
DEFAULT_RATE == StringToNumber(<<"4", ".", "2", "6", "4">>)
\* a faulty variant: a default that is none of the options
DefaultTermOutside == [label |-> "25 years (fix)", years |-> NumOfNat(25)]

DEFAULT_TERM == LOAN_TERMS[2]

HOMEOWNERS_INSURANCE == NumOfNat(80)
PROPERTY_TAX == NumOfNat(1300)

\* LOAN_TERMS.find((t) => t.years === years), lines 180-182: the index of the
\* first entry the callback accepts, 0 for find's undefined
RECURSIVE FindFrom(_, _)
FindFrom(years, i) ==
  IF i > Len(LOAN_TERMS) THEN 0
  ELSE IF NumEq(LOAN_TERMS[i].years, years) THEN i
  ELSE FindFrom(years, i + 1)

FindTerm(years) == FindFrom(years, 1)

(***************************************************************************)
(* calculateMonthlyPrincipalAndInterest                                    *)
(***************************************************************************)
\* A faulty variant, for showing that the properties below tell the
\* calculator from it: the term in years taken for the number of monthly
\* payments.
calculateYearsAsPayments(price, down, annualRatePercent, years) ==
  LET loanAmount == MathMax(NumSub(price, down), Zero(0))
      monthlyRate == NumDiv(NumDiv(annualRatePercent, NumOfNat(100)), NumOfNat(12))
      n == years
      numerator == NumMul(monthlyRate, MathPow(NumAdd(One, monthlyRate), n))
      denominator == NumSub(MathPow(NumAdd(One, monthlyRate), n), One)
  IN  IF NumEq(loanAmount, Zero(0)) THEN Zero(0)
      ELSE IF NumEq(monthlyRate, Zero(0)) THEN NumDiv(loanAmount, n)
      ELSE NumMul(loanAmount, NumDiv(numerator, denominator))

\* price and down are the parameters purchasePrice and downPayment, lines 23-24,
\* named apart from the App's state of the same names
calculateMonthlyPrincipalAndInterest(price, down, annualRatePercent, years) ==
  LET loanAmount == MathMax(NumSub(price, down), Zero(0))
      monthlyRate == NumDiv(NumDiv(annualRatePercent, NumOfNat(100)), NumOfNat(12))
      n == NumMul(years, NumOfNat(12))
      numerator == NumMul(monthlyRate, MathPow(NumAdd(One, monthlyRate), n))
      denominator == NumSub(MathPow(NumAdd(One, monthlyRate), n), One)
  IN  IF NumEq(loanAmount, Zero(0)) THEN Zero(0)
      ELSE IF NumEq(monthlyRate, Zero(0)) THEN NumDiv(loanAmount, n)
      ELSE NumMul(loanAmount, NumDiv(numerator, denominator))

(***************************************************************************)
(* What the user (or a test) can put into each control: e.target.value of  *)
(* a change event, a string.                                               *)
(***************************************************************************)
SliderEntries ==
  { <<"5", "0", "0", "0", "0">>,
    <<"1", "0", "0", "0", "0", "0">> }

PriceEntries ==
  { <<"1", "0", "0", "0", "0", "0">>,
    <<"1", "2", "0", "0", "0", "0">>,
    <<"a", "b", "c">>,
    <<"I", "n", "f", "i", "n", "i", "t", "y">> }

DownEntries ==
  { <<"1", "0", "0", "0", "0", "0">>,
    <<>>,
    <<"-", "5">>,
    <<"1", "e", "9", "9", "9">> }

RateEntries ==
  { <<"0">>,
    <<"5">>,
    <<"2", "e", "-", "1", "3">>,
    <<"8", "0", "0", "0">>,
    <<"-", "1">>,
    <<"x">> }

TermEntries ==
  { <<"1", "5">>,
    <<"2", "0">>,
    <<"3", "0">>,
    <<"2", "5">>,
    <<"0">>,
    <<"a", "b", "c">> }

(***************************************************************************)
(* The App component.                                                      *)
(***************************************************************************)
VARIABLES
  purchasePrice,         \* useState, line 51
  downPayment,           \* useState, line 54
  rate,                  \* useState, line 55
  term,                  \* useState, line 56
  principalAndInterest,  \* the value useMemo holds and the render shows, line 58
  memoDeps,              \* the dependencies that value was computed for, line 66
  totalPayment,          \* line 69, as last rendered
  call,                  \* the arguments of the latest call of the calculator
  lastEvent              \* the latest change event: its control and its value

vars == <<purchasePrice, downPayment, rate, term, principalAndInterest,
          memoDeps, totalPayment, call, lastEvent>>

\* Number(e.target.value): StringToNumber, worked out once for each entry
AllEntries ==
  SliderEntries \cup PriceEntries \cup DownEntries \cup RateEntries \cup TermEntries

NumberOfEntry == {<<raw, StringToNumber(raw)>> : raw \in AllEntries}

Number(raw) == (CHOOSE p \in NumberOfEntry : p[1] = raw)[2]

\* a faulty variant: the entry's number as it is, NaN or not
CoerceNothing(raw) == Number(raw)

\* the onChange coercion of the three number inputs, lines 121-123
CoerceInput(raw) ==
  IF NumberIsNaN(Number(raw)) THEN Zero(0) ELSE Number(raw)

\* a faulty variant: the first option for the fallback
SelectTermFirst(raw) ==
  LET selected == FindTerm(Number(raw))
  IN  IF selected = 0 THEN LOAN_TERMS[1] ELSE LOAN_TERMS[selected]

\* selected || DEFAULT_TERM, lines 179-183
SelectTerm(raw) ==
  LET selected == FindTerm(Number(raw))
  IN  IF selected = 0 THEN DEFAULT_TERM ELSE LOAN_TERMS[selected]

CallArgs(pp, dp, r, t) ==
  [purchasePrice |-> pp, downPayment |-> dp, annualRatePercent |-> r,
   years |-> t.years]

Calculate(args) ==
  calculateMonthlyPrincipalAndInterest(args.purchasePrice, args.downPayment,
                                       args.annualRatePercent, args.years)

\* The calls the App can make: stored(raw) is the number a handler stores for
\* the entry raw, and the term is the default or an option.
TermValues == {DEFAULT_TERM} \cup {LOAN_TERMS[i] : i \in 1..Len(LOAN_TERMS)}

AppCallsOf(stored) ==
  {CallArgs(pp, dp, r, t) :
     pp \in {DEFAULT_PURCHASE_PRICE}
              \cup {stored[raw] : raw \in SliderEntries \cup PriceEntries},
     dp \in {DEFAULT_DOWN_PAYMENT} \cup {stored[raw] : raw \in DownEntries},
     r \in {DEFAULT_RATE} \cup {stored[raw] : raw \in RateEntries},
     t \in TermValues}

AppCalls == AppCallsOf([raw \in AllEntries |-> CoerceInput(raw)])

\* The arguments of the direct calls of the calculator.
CalcPrices ==
  {Zero(0), NumOfNat(100000), NumOfNat(120000), NumOfNat(990000), Infinity(0)}
CalcDowns == {Zero(0), NumOfNat(22002), NumOfNat(100000), Infinity(0)}
CalcRates ==
  {StringToNumber(str) :
     str \in { <<"0">>, <<"-", "0">>, <<"1", "e", "-", "1", "4">>,
               <<"2", "e", "-", "1", "3">>, <<"4", ".", "2", "6", "4">>,
               <<"5">>, <<"8", "0", "0", "0">>, <<"N", "a", "N">> }}
CalcTerms ==
  {LOAN_TERMS[i] : i \in 1..Len(LOAN_TERMS)}
    \cup {[label |-> "1 year", years |-> NumOfNat(1)]}

CalcCalls ==
  {CallArgs(pp, dp, r, t) : pp \in CalcPrices, dp \in CalcDowns,
                            r \in CalcRates, t \in CalcTerms}

\* The calculator is a pure function: its result on each call, worked out once.
Results == {<<args, Calculate(args)>> : args \in AppCalls \cup CalcCalls}

ResultOf(args) == (CHOOSE p \in Results : p[1] = args)[2]

\* a faulty variant: the term left out of the dependencies
MemoDepsWithoutTerm(pp, dp, r, t) == <<pp, dp, r>>

\* useMemo(() => calculate(...), [purchasePrice, downPayment, rate, term]):
\* the stored value is kept while every dependency is the same (Object.is),
\* and computed anew otherwise.
MemoDepsOf(pp, dp, r, t) == <<pp, dp, r, t>>

\* a faulty variant: the property tax left out
TotalPaymentWithoutTax(pi) == NumAdd(pi, HOMEOWNERS_INSURANCE)

\* principalAndInterest + HOMEOWNERS_INSURANCE + PROPERTY_TAX, line 69
TotalPayment(pi) == NumAdd(NumAdd(pi, HOMEOWNERS_INSURANCE), PROPERTY_TAX)

\* One render of App with the state pp, dp, r, t, lines 58-69: what useMemo
\* returns, and whether it called the calculator for it.
Memoised(pp, dp, r, t) ==
  IF MemoDepsOf(pp, dp, r, t) # memoDeps
  THEN <<ResultOf(CallArgs(pp, dp, r, t)), CallArgs(pp, dp, r, t)>>
  ELSE <<principalAndInterest, call>>

Rendered(pp, dp, r, t, memo) ==
  /\ memoDeps' = MemoDepsOf(pp, dp, r, t)
  /\ principalAndInterest' = memo[1]
  /\ call' = memo[2]
  /\ totalPayment' = TotalPayment(memo[1])

Render(pp, dp, r, t) == Rendered(pp, dp, r, t, Memoised(pp, dp, r, t))

\* the first render: useMemo has nothing stored and calls the calculator
Init ==
  /\ purchasePrice = DEFAULT_PURCHASE_PRICE
  /\ downPayment = DEFAULT_DOWN_PAYMENT
  /\ rate = DEFAULT_RATE
  /\ term = DEFAULT_TERM
  /\ memoDeps = MemoDepsOf(purchasePrice, downPayment, rate, term)
  /\ call = CallArgs(purchasePrice, downPayment, rate, term)
  /\ principalAndInterest = ResultOf(call)
  /\ totalPayment = TotalPayment(principalAndInterest)
  /\ lastEvent = [control |-> "none", value |-> <<>>]

\* the range input's onChange, lines 119-125
OnPurchaseSliderChange(raw) ==
  /\ purchasePrice' = CoerceInput(raw)
  /\ UNCHANGED <<downPayment, rate, term>>
  /\ Render(purchasePrice', downPayment', rate', term')
  /\ lastEvent' = [control |-> "slider", value |-> raw]

\* the purchase price field's onChange, lines 134-140
OnPurchaseFieldChange(raw) ==
  /\ purchasePrice' = CoerceInput(raw)
  /\ UNCHANGED <<downPayment, rate, term>>
  /\ Render(purchasePrice', downPayment', rate', term')
  /\ lastEvent' = [control |-> "price", value |-> raw]

\* the down payment field's onChange, lines 155-161
OnDownPaymentChange(raw) ==
  /\ downPayment' = CoerceInput(raw)
  /\ UNCHANGED <<purchasePrice, rate, term>>
  /\ Render(purchasePrice', downPayment', rate', term')
  /\ lastEvent' = [control |-> "down", value |-> raw]

\* the term select's onChange, lines 178-184
OnTermChange(raw) ==
  /\ term' = SelectTerm(raw)
  /\ UNCHANGED <<purchasePrice, downPayment, rate>>
  /\ Render(purchasePrice', downPayment', rate', term')
  /\ lastEvent' = [control |-> "term", value |-> raw]

\* the rate field's onChange, lines 199-205
OnRateChange(raw) ==
  /\ rate' = CoerceInput(raw)
  /\ UNCHANGED <<purchasePrice, downPayment, term>>
  /\ Render(purchasePrice', downPayment', rate', term')
  /\ lastEvent' = [control |-> "rate", value |-> raw]

Next ==
  \/ \E raw \in SliderEntries : OnPurchaseSliderChange(raw)
  \/ \E raw \in PriceEntries : OnPurchaseFieldChange(raw)
  \/ \E raw \in DownEntries : OnDownPaymentChange(raw)
  \/ \E raw \in TermEntries : OnTermChange(raw)
  \/ \E raw \in RateEntries : OnRateChange(raw)

Spec == Init /\ [][Next]_vars

(***************************************************************************)
(* calculateMonthlyPrincipalAndInterest called directly: the arguments are *)
(* drawn from CalcPrices, CalcDowns, CalcRates and CalcTerms, and each     *)
(* step calls it again with one argument changed.  The variables hold the  *)
(* arguments, the call and its result.                                     *)
(***************************************************************************)
Called(pp, dp, r, t) ==
  /\ purchasePrice' = pp
  /\ downPayment' = dp
  /\ rate' = r
  /\ term' = t
  /\ memoDeps' = MemoDepsOf(pp, dp, r, t)
  /\ call' = CallArgs(pp, dp, r, t)
  /\ principalAndInterest' = ResultOf(call')
  /\ totalPayment' = TotalPayment(principalAndInterest')
  /\ lastEvent' = [control |-> "call", value |-> <<>>]

CalcInit ==
  /\ purchasePrice \in CalcPrices
  /\ downPayment \in CalcDowns
  /\ rate \in CalcRates
  /\ term \in CalcTerms
  /\ memoDeps = MemoDepsOf(purchasePrice, downPayment, rate, term)
  /\ call = CallArgs(purchasePrice, downPayment, rate, term)
  /\ principalAndInterest = ResultOf(call)
  /\ totalPayment = TotalPayment(principalAndInterest)
  /\ lastEvent = [control |-> "none", value |-> <<>>]

CallWithPrice(pp) == Called(pp, downPayment, rate, term)
CallWithDown(dp) == Called(purchasePrice, dp, rate, term)
CallWithRate(r) == Called(purchasePrice, downPayment, r, term)
CallWithTerm(t) == Called(purchasePrice, downPayment, rate, t)

CalcNext ==
  \/ \E pp \in CalcPrices : CallWithPrice(pp)
  \/ \E dp \in CalcDowns : CallWithDown(dp)
  \/ \E r \in CalcRates : CallWithRate(r)
  \/ \E t \in CalcTerms : CallWithTerm(t)

CalcSpec == CalcInit /\ [][CalcNext]_vars

(***************************************************************************)
(* The claims.  C1 to C4 are about the calculator and are checked on its   *)
(* direct calls (CalcSpec); C5 to C10 are about the App (Spec).            *)
(***************************************************************************)
\* what the claims call the loan amount, the number of payments and the
\* monthly rate of a call
LoanAmountOf(c) == MathMax(NumSub(c.purchasePrice, c.downPayment), Zero(0))
PaymentsOf(c) == NumMul(c.years, NumOfNat(12))
MonthlyRateOf(c) == NumDiv(NumDiv(c.annualRatePercent, NumOfNat(100)), NumOfNat(12))

Options == {LOAN_TERMS[i] : i \in 1..Len(LOAN_TERMS)}

\* C1 as stated: whenever purchasePrice <= downPayment the calculator returns
\* 0, whatever the annual rate and the term.  (It does not when the two are
\* the same infinity: Infinity - Infinity is NaN, Math.max passes it on, and
\* NaN === 0 is false, so the call goes on to the formula.)
C1_ZeroLoanAsStated ==
  NumLe(call.purchasePrice, call.downPayment) => principalAndInterest = Zero(0)

\* C2: when the annual rate is 0, the loan amount max(purchasePrice -
\* downPayment, 0) is at least 0 and the term is more than 0 years, the
\* calculator returns exactly loanAmount / (years * 12).
C2_ZeroRate ==
  (/\ call.annualRatePercent.k = "zero"
   /\ NumLt(Zero(0), call.years)
   /\ NumLe(Zero(0), LoanAmountOf(call)))
    => principalAndInterest = NumDiv(LoanAmountOf(call), PaymentsOf(call))

\* C2 witness: 120000 over 15 years at the rate 0 has returned 120000 / 180,
\* the binary64 666.6666666666666.
C2_Witness ==
  /\ lastEvent.control = "call"
  /\ call = CallArgs(NumOfNat(120000), Zero(0), Zero(0), LOAN_TERMS[1])
  /\ principalAndInterest = Finite(0, <<21845, 10922, 21845, 166>>, -43)

\* the tolerance of C3, 2^-20 of the amount compared
Slack == NumDiv(One, NumOfNat(1048576))

\* C3 as stated: for a finite loan amount above 0, an annual rate above 0 (and
\* here no more than 100 percent) and a selectable term, n = years * 12 payments of the result retire the loan under
\* balance' = balance * (1 + monthlyRate) - payment.  A balance that ends at
\* zero needs the payments to sum to no less than the loan amount (interest is
\* never negative), and each payment to be no more than an equal share of the
\* loan amount plus one month's interest on all of it (the balance never
\* exceeds the loan amount); both are required here, within the tolerance.
C3_AmortizationAsStated ==
  (/\ NumLt(Zero(0), LoanAmountOf(call))
   /\ LoanAmountOf(call).k = "fin"
   /\ NumLt(Zero(0), call.annualRatePercent)
   /\ NumLe(call.annualRatePercent, NumOfNat(100))
   /\ term \in Options)
    => /\ NumLe(NumMul(LoanAmountOf(call), NumSub(One, Slack)),
                NumMul(principalAndInterest, PaymentsOf(call)))
       /\ NumLe(principalAndInterest,
                NumMul(NumAdd(NumDiv(LoanAmountOf(call), PaymentsOf(call)),
                              NumMul(LoanAmountOf(call), MonthlyRateOf(call))),
                       NumAdd(One, Slack)))

\* C4 as stated: from one call to the next, with the rate (at least 0) and the
\* term the same and the loan amount no smaller, the result is not smaller;
\* and with the purchase price, the down payment and the term the same and the
\* rate (at least 0) no smaller, the result is not smaller.
C4_MonotoneAsStated ==
  [][/\ (/\ rate' = rate
         /\ term' = term
         /\ NumLe(Zero(0), rate)
         /\ NumLe(LoanAmountOf(call), LoanAmountOf(call')))
          => ~NumLt(principalAndInterest', principalAndInterest)
     /\ (/\ purchasePrice' = purchasePrice
         /\ downPayment' = downPayment
         /\ term' = term
         /\ NumLe(Zero(0), rate)
         /\ NumLe(rate, rate'))
          => ~NumLt(principalAndInterest', principalAndInterest)]_vars

\* C5: in every state of the App the total payment shown is
\* principalAndInterest + 80 + 1300, 80 and 1300 being the two constants.
C5_TotalPayment ==
  /\ totalPayment =
       NumAdd(NumAdd(principalAndInterest, NumOfNat(80)), NumOfNat(1300))
  /\ HOMEOWNERS_INSURANCE = NumOfNat(80)
  /\ PROPERTY_TAX = NumOfNat(1300)

\* C5 witness: after the rate entry "0" with the price 120000, no down payment
\* and 15 years, the total shown is 666.6666666666666 + 80 + 1300, the binary64
\* 2046.6666666666665.
C5_Witness ==
  /\ lastEvent.control = "rate"
  /\ purchasePrice = NumOfNat(120000)
  /\ downPayment = Zero(0)
  /\ rate = Zero(0)
  /\ term = LOAN_TERMS[1]
  /\ totalPayment = Finite(0, <<10922, 21845, 27306, 255>>, -42)

\* C6 as stated: in every state of the App the calculator was called with
\* purchasePrice >= 0, downPayment >= 0 and annualRatePercent >= 0.
C6_NoNegativeAsStated ==
  /\ NumLe(Zero(0), call.purchasePrice)
  /\ NumLe(Zero(0), call.downPayment)
  /\ NumLe(Zero(0), call.annualRatePercent)

\* what C7 has a handler store for an entry
StoredFor(raw) ==
  IF StringToNumber(raw).k = "nan" THEN Zero(0) ELSE StringToNumber(raw)

\* C7: after a change of the slider, the price field, the down payment field
\* or the rate field, that input is 0 if the entry's conversion is NaN and the
\* entry's number otherwise; and the calculator is never called with a NaN
\* purchase price, down payment or rate.
C7_NaNCoerced ==
  /\ lastEvent.control \in {"slider", "price"}
       => purchasePrice = StoredFor(lastEvent.value)
  /\ lastEvent.control = "down" => downPayment = StoredFor(lastEvent.value)
  /\ lastEvent.control = "rate" => rate = StoredFor(lastEvent.value)
  /\ ~NumberIsNaN(call.purchasePrice)
  /\ ~NumberIsNaN(call.downPayment)
  /\ ~NumberIsNaN(call.annualRatePercent)

\* C7 witness: the price field was given "abc", the purchase price is 0 and
\* the calculator was called with 0.
C7_Witness ==
  /\ lastEvent = [control |-> "price", value |-> <<"a", "b", "c">>]
  /\ purchasePrice = Zero(0)
  /\ call.purchasePrice = Zero(0)

\* C8: in every state of the App the term is one of the options, of 15, 20 or
\* 30 years, and 20 years before any change; the calculator was called with the
\* term's years, and n = years * 12 is above 0.
C8_TermIsOption ==
  /\ term \in Options
  /\ term.years \in {NumOfNat(15), NumOfNat(20), NumOfNat(30)}
  /\ lastEvent.control = "none" => term.years = NumOfNat(20)
  /\ call.years = term.years
  /\ NumLt(Zero(0), PaymentsOf(call))

\* C8 witness: 30 years selected, with the rate 0, the price 100000 and no down
\* payment: the zero-rate branch has divided by n = 360 and returned the
\* binary64 277.77777777777777.
C8_Witness ==
  /\ term = LOAN_TERMS[3]
  /\ rate = Zero(0)
  /\ purchasePrice = NumOfNat(100000)
  /\ downPayment = Zero(0)
  /\ principalAndInterest = Finite(0, <<29127, 3640, 29127, 138>>, -44)

\* C9: after a change of the term select, the term is the option whose years
\* equal the entry's number if there is one, and DEFAULT_TERM, of 20 years, if
\* there is none.
C9_TermFallback ==
  lastEvent.control = "term"
    => IF \E t \in Options : NumEq(t.years, StringToNumber(lastEvent.value))
       THEN term \in Options /\ NumEq(term.years, StringToNumber(lastEvent.value))
       ELSE term = DEFAULT_TERM /\ term.years = NumOfNat(20)

\* C9 witness: the term select was given "25", which is no option, and the
\* term is the 20-year default.
C9_Witness ==
  /\ lastEvent = [control |-> "term", value |-> <<"2", "5">>]
  /\ term = LOAN_TERMS[2]

\* C10: in every state of the App principalAndInterest is the calculator's
\* result on the current purchase price, down payment, rate and term; and a
\* change of one control leaves the other three inputs as they were.
C10_NeverStale ==
  /\ [](principalAndInterest
          = ResultOf(CallArgs(purchasePrice, downPayment, rate, term)))
  /\ [][/\ lastEvent'.control \in {"slider", "price"}
             => UNCHANGED <<downPayment, rate, term>>
        /\ lastEvent'.control = "down"
             => UNCHANGED <<purchasePrice, rate, term>>
        /\ lastEvent'.control = "rate"
             => UNCHANGED <<purchasePrice, downPayment, term>>
        /\ lastEvent'.control = "term"
             => UNCHANGED <<purchasePrice, downPayment, rate>>]_vars

\* C10 witness: after the term was changed to 30 years, with the other inputs
\* at their defaults, principalAndInterest is the binary64 4769.905360315053
\* (it was 6001.408205977484 for 20 years).
C10_Witness ==
  /\ lastEvent.control = "term"
  /\ term = LOAN_TERMS[3]
  /\ purchasePrice = DEFAULT_PURCHASE_PRICE
  /\ downPayment = DEFAULT_DOWN_PAYMENT
  /\ rate = DEFAULT_RATE
  /\ principalAndInterest = Finite(0, <<4160, 2915, 1951, 149>>, -40)

====
